---- MODULE Spec2Model ----
(***************************************************************************)
(* State-machine model of sebs/experiments/perf_cost.py (class PerfCost):  *)
(* the Run Driver (_run_configuration), the Sweep Driver (run and          *)
(* run_configuration) and the Result Post-Processor (process).             *)
(***************************************************************************)
EXTENDS Integers, Sequences, FiniteSets, Bags, TLC

(* ------------------------------------------------------------------ *)
(* Bounds of the model                                                 *)
(* ------------------------------------------------------------------ *)

\* largest settings["repetitions"] explored
MaxRepetitions == 5

\* largest settings["concurrent-invocations"] explored
MaxInvocations == 5

\* during one direct run at most this many invocations raise or run on an
\* instance in another state than the backend was driven to (see Deviates)
MaxBad == 2

\* largest settings["repetitions"] explored under fairness
LiveMaxRepetitions == 3

\* largest settings["concurrent-invocations"] explored under fairness
LiveMaxInvocations == 3

\* largest settings["repetitions"] explored with a backend in outage
StallMaxRepetitions == 2

\* largest settings["concurrent-invocations"] explored with such a backend
StallMaxInvocations == 2

\* invocations such a backend answers, all of them raising or deviating
StallMaxBad == 4

\* longest settings["experiments"] explored by a sweep
MaxExperiments == 2

\* longest settings["memory-sizes"] explored by a sweep
MaxMemorySizes == 2

\* largest settings["repetitions"] explored by a sweep
SweepMaxRepetitions == 1

\* largest settings["concurrent-invocations"] explored by a sweep
SweepMaxInvocations == 1

\* during one sweep at most this many invocations raise or deviate
SweepMaxBad == 1

\* longest settings["experiments"] explored with an unseeded generator
CounterMaxExperiments == 2

\* longest settings["memory-sizes"] explored with an unseeded generator
CounterMaxMemorySizes == 1

\* longest series of latencies given to compute_statistics on its own
StatsMaxSamples == 22

\* memory sizes of the raw result files a post-processed directory holds
ProcMaxMemorySizes == 1

\* largest number of invocations in one raw result file of such a directory
ProcMaxSamples == 1

\* passes of process() over one directory
MaxPasses == 2

(* ------------------------------------------------------------------ *)
(* Data                                                                *)
(* ------------------------------------------------------------------ *)

\* PerfCost.RunType
RunType == {"WARM", "COLD", "BURST", "SEQUENTIAL"}

\* RunType.str(): self.name.lower()
RunTypeStr(rt) ==
    CASE rt = "WARM" -> "warm"
      [] rt = "COLD" -> "cold"
      [] rt = "BURST" -> "burst"
      [] rt = "SEQUENTIAL" -> "sequential"

\* client-side latency in milliseconds observed by sync_invoke: a cold start
\* is slower than a reused instance
ClientMs(cold) == IF cold THEN {3000} ELSE {1000}

\* what pool.apply_async(...).get() can deliver: an ExecutionResult (ret) ...
Returned == { [kind |-> "ret", cold_start |-> c, client |-> t] :
                c \in BOOLEAN, t \in {1000, 3000} }

\* ... or the exception raised by sync_invoke, re-raised by get()
Raised == [kind |-> "raise", cold_start |-> FALSE, client |-> 0]

\* an AsyncResult whose invocation is still in flight
Pending == [kind |-> "pending", cold_start |-> FALSE, client |-> 0]

\* the outcomes the backend can produce for one invocation
BackendOutcomes ==
    { o \in Returned : o.client \in ClientMs(o.cold_start) } \cup {Raised}

\* the invocation failed, or ran on an instance in another state than the
\* backend was driven to: a fresh instance is expected exactly when the run
\* calls enforce_cold_start before each batch
Deviates(rt, o) ==
    \/ o.kind = "raise"
    \/ o.cold_start # (rt = "COLD")

\* ret.times.client / 1000.0 (latencies are whole seconds in the model)
Seconds(ms) == ms \div 1000

\* file_name of a run: f"{run_type.str()}_results_{suffix}.json" if suffix
\* else "cold_results.json"; a name is the tuple of its "_"-separated fields
FileName(rt, sfx) ==
    IF sfx # "" THEN <<RunTypeStr(rt), "results", sfx>> ELSE <<"cold", "results">>

\* a loop test that is off by one: one more batch at the target
LoopCond_OffByOne(gathered, reps) == gathered <= reps

\* a loop test that gives up one sample short of the target
LoopCond_StopsEarly(gathered, reps) == gathered + 1 < reps

\* while samples_gathered < repetitions
LoopCond(gathered, reps) == gathered < reps

\* a label test that also holds BURST runs to cold starts
IsIncorrect_BurstAsCold(rt, cold) ==
    \/ rt \in {"COLD", "BURST"} /\ ~cold
    \/ rt = "WARM" /\ cold

\* the label test of the collect loop: the sample is logged and put in
\* `incorrect` instead of being counted
IsIncorrect(rt, cold) ==
    \/ rt = "COLD" /\ ~cold
    \/ rt = "WARM" /\ cold

\* the argument of randrange(100)
CounterRange == 100

\* the integers randrange(100) can return
RandRange == 0..(CounterRange - 1)

\* a generator left in a state from which the draws of the execution fall on
\* one value
SeededDraws == {42}

\* the sample count above which compute_statistics takes the
\* non-parametric interval
NonParametricThreshold == 20

VARIABLES
    run_type,             \* argument run_type
    repetitions,          \* argument repetitions
    invocations,          \* settings["concurrent-invocations"]
    suffix,               \* argument suffix
    pc,                   \* position of the control loop
    samples_gathered,
    samples_generated,
    client_times,
    result,               \* the ExperimentResult: state and added invocations
    results,              \* the AsyncResults of the current batch
    res_idx,              \* position of `for res in results`
    incorrect,
    incorrect_executions,
    incorrect_count,
    error_count,
    error_executions,
    files,                \* the files of self._out_dir, by name
    stats_input,          \* the argument compute_statistics was called with
    stats_calls,          \* the calls compute_statistics made, in order
    enforce_calls,        \* calls of enforce_cold_start made by the run
    history,              \* every batch's outcomes, in the order folded
    budget,               \* invocations that may still raise or deviate
    experiments,          \* settings["experiments"]
    memory_sizes,         \* settings["memory-sizes"]
    sweep_pc,             \* position of run() and run_configuration()
    mem_idx,              \* position of `for memory in memory_sizes`
    exp_idx,              \* position of `for experiment_type in ...`
    function_memory,      \* self._function.memory
    deployed_memory,      \* the memory the deployment client was last given
    cached_memory,        \* the memory the cache client was last given
    calls,                \* the collaborator calls and runs of the sweep, in order
    directory,            \* the argument `directory` of process()
    proc_pc,              \* position of process()
    todo,                 \* the files of glob.glob(...) not yet visited
    csv,                  \* the rows of result.csv below its header
    pass,                 \* the number of the call of process()
    prev_csv,             \* the rows the last completed pass left
    events,               \* what the current call did to which file, and the calls that returned
    cold_start_counter,   \* self._deployment_client.cold_start_counter
    counter_starts,       \* the values the last two runs set the counter to
    rng,                  \* the values randrange(100) can return in this execution
    outage                \* the backend returns no correctly labeled outcome

procVars == <<directory, proc_pc, todo, csv, pass, prev_csv, events>>

backend == <<cold_start_counter, counter_starts>>

sweepVars == <<experiments, memory_sizes, sweep_pc, mem_idx, exp_idx,
               function_memory, deployed_memory, cached_memory, calls>>

vars == <<run_type, repetitions, invocations, suffix, pc, samples_gathered,
          samples_generated, client_times, result, results, res_idx,
          incorrect, incorrect_executions, incorrect_count, error_count,
          error_executions, files, stats_input, stats_calls, enforce_calls, history, budget,
          sweepVars, procVars, backend, rng, outage>>

args == <<run_type, repetitions, invocations, suffix, sweepVars, procVars, rng,
          outage>>

accumulators == <<samples_gathered, client_times, result, incorrect,
                  incorrect_executions, incorrect_count, error_count,
                  error_executions>>

NoFile == [kind |-> "absent"]
EmptyFile == [kind |-> "empty"]

locals == <<samples_gathered, samples_generated, client_times, result, results,
            res_idx, incorrect, incorrect_executions, incorrect_count,
            error_count, error_executions, stats_input, stats_calls, enforce_calls, history>>

\* the locals of _run_configuration before its first statement
FreshLocals ==
    /\ samples_gathered = 0
    /\ samples_generated = 0
    /\ client_times = <<>>
    /\ result = [state |-> "none", invocations |-> <<>>]
    /\ results = <<>>
    /\ res_idx = 0
    /\ incorrect = <<>>
    /\ incorrect_executions = <<>>
    /\ incorrect_count = 0
    /\ error_count = 0
    /\ error_executions = <<>>
    /\ stats_input = <<>>
    /\ stats_calls = <<>>
    /\ enforce_calls = 0
    /\ history = <<>>

\* a new frame of _run_configuration: the same, of the next state
NewFrame ==
    /\ samples_gathered' = 0
    /\ samples_generated' = 0
    /\ client_times' = <<>>
    /\ result' = [state |-> "none", invocations |-> <<>>]
    /\ results' = <<>>
    /\ res_idx' = 0
    /\ incorrect' = <<>>
    /\ incorrect_executions' = <<>>
    /\ incorrect_count' = 0
    /\ error_count' = 0
    /\ error_executions' = <<>>
    /\ stats_input' = <<>>
    /\ stats_calls' = <<>>
    /\ enforce_calls' = 0
    /\ history' = <<>>

\* the state of _run_configuration when it is entered
RunLocalsInit ==
    /\ pc = "init"
    /\ FreshLocals

\* no sweep is running: _run_configuration is called directly
NoSweep ==
    /\ experiments = <<>>
    /\ memory_sizes = <<>>
    /\ sweep_pc = "direct"
    /\ mem_idx = 0
    /\ exp_idx = 0
    /\ function_memory = 0
    /\ deployed_memory = 0
    /\ cached_memory = 0
    /\ calls = <<>>

\* the deployment client as constructed, before any run
NoRunYet ==
    /\ cold_start_counter = 0
    /\ counter_starts = <<>>

\* process() is not running
NoProc ==
    /\ directory = [absolute |-> TRUE, names_processed |-> FALSE]
    /\ proc_pc = "none"
    /\ todo = {}
    /\ csv = EmptyBag
    /\ pass = 0
    /\ prev_csv = EmptyBag
    /\ events = {}

\* a call _run_configuration(run_type, settings, repetitions), the suffix
\* left at its default
Init ==
    /\ run_type \in RunType
    /\ repetitions \in 1..MaxRepetitions
    /\ invocations \in 1..MaxInvocations
    /\ suffix = ""
    /\ files = [n \in {} |-> NoFile]
    /\ budget = MaxBad
    /\ RunLocalsInit
    /\ NoSweep
    /\ NoProc
    /\ NoRunYet
    /\ rng = SeededDraws
    /\ outage = FALSE

(* ------------------------------------------------------------------ *)
(* The Run Driver: _run_configuration                                  *)
(* ------------------------------------------------------------------ *)

\* Initializing: set the cold-start counter to randrange(100), open the
\* output file for writing, create the ExperimentResult and begin() it
Initialize ==
    /\ pc = "init"
    /\ \E drawn \in rng :
          /\ cold_start_counter' = drawn
          /\ counter_starts' = IF counter_starts = <<>> THEN <<drawn>>
                                ELSE <<counter_starts[Len(counter_starts)], drawn>>
    /\ files' = (FileName(run_type, suffix) :> EmptyFile) @@ files
    /\ result' = [state |-> "begun", invocations |-> <<>>]
    /\ pc' = "loop"
    /\ UNCHANGED <<args, samples_gathered, samples_generated, client_times,
                   results, res_idx, incorrect, incorrect_executions,
                   incorrect_count, error_count, error_executions,
                   stats_input, stats_calls, enforce_calls, history, budget>>

\* enforcement repeated for every invocation of the batch
EnforceColdStart_PerInvocation ==
    /\ pc = "loop"
    /\ LoopCond(samples_gathered, repetitions)
    /\ run_type = "COLD"
    /\ enforce_calls' = enforce_calls + invocations
    /\ pc' = "issue"
    /\ UNCHANGED <<args, backend, accumulators, samples_generated, results, res_idx,
                   files, stats_input, stats_calls, history, budget>>

\* the loop is entered and the run is COLD: enforce_cold_start([function])
EnforceColdStart ==
    /\ pc = "loop"
    /\ LoopCond(samples_gathered, repetitions)
    /\ run_type = "COLD"
    /\ enforce_calls' = enforce_calls + 1
    /\ pc' = "issue"
    /\ UNCHANGED <<args, backend, accumulators, samples_generated, results, res_idx,
                   files, stats_input, stats_calls, history, budget>>

\* the batch: one pool.apply_async per i in range(0, invocations)
IssueBatch ==
    /\ \/ pc = "issue"
       \/ pc = "loop" /\ LoopCond(samples_gathered, repetitions)
                      /\ run_type # "COLD"
    /\ results' = [i \in 1..invocations |-> Pending]
    /\ samples_generated' = samples_generated + invocations
    /\ incorrect' = <<>>
    /\ res_idx' = 1
    /\ history' = Append(history, <<>>)
    /\ pc' = "collect"
    /\ UNCHANGED <<args, backend, samples_gathered, client_times, result,
                   incorrect_executions, incorrect_count, error_count,
                   error_executions, files, stats_input, stats_calls, enforce_calls, budget>>

\* a pool worker that counts its own sample instead of only returning it
SyncInvoke_CountsItself(i) ==
    /\ pc = "collect"
    /\ results[i] = Pending
    /\ \E o \in BackendOutcomes :
        /\ outage => o.kind = "raise" \/ IsIncorrect(run_type, o.cold_start)
        /\ Deviates(run_type, o) => budget > 0
        /\ budget' = IF Deviates(run_type, o) THEN budget - 1 ELSE budget
        /\ results' = [results EXCEPT ![i] = o]
    /\ samples_gathered' = samples_gathered + 1
    /\ UNCHANGED <<args, backend, pc, client_times, result, incorrect,
                   incorrect_executions, incorrect_count, error_count,
                   error_executions, samples_generated, res_idx, files,
                   stats_input, stats_calls, enforce_calls, history>>

\* a pool worker: self._trigger.sync_invoke(input) returns or raises
SyncInvoke(i) ==
    /\ pc = "collect"
    /\ results[i] = Pending
    /\ \E o \in BackendOutcomes :
        /\ outage => o.kind = "raise" \/ IsIncorrect(run_type, o.cold_start)
        /\ Deviates(run_type, o) => budget > 0
        /\ budget' = IF Deviates(run_type, o) THEN budget - 1 ELSE budget
        /\ results' = [results EXCEPT ![i] = o]
    /\ UNCHANGED <<args, backend, pc, accumulators, samples_generated, res_idx, files,
                   stats_input, stats_calls, enforce_calls, history>>

\* a fold that counts a mislabeled sample as well as recording it
Fold_CountsIncorrect(ret) ==
    IF ret.kind = "raise"
    THEN /\ error_count' = error_count + 1
         /\ error_executions' = Append(error_executions, "exception")
         /\ UNCHANGED <<incorrect, result, client_times, samples_gathered>>
    ELSE /\ incorrect' = IF IsIncorrect(run_type, ret.cold_start)
                         THEN Append(incorrect, ret) ELSE incorrect
         /\ result' = [result EXCEPT !.invocations = Append(@, ret)]
         /\ client_times' = Append(client_times, Seconds(ret.client))
         /\ samples_gathered' = samples_gathered + 1
         /\ UNCHANGED <<error_count, error_executions>>

\* a fold whose except clause swallows the exception without recording it
Fold_SwallowsErrors(ret) ==
    IF ret.kind = "raise"
    THEN UNCHANGED <<error_count, error_executions, incorrect, result,
                     client_times, samples_gathered>>
    ELSE IF IsIncorrect(run_type, ret.cold_start)
    THEN /\ incorrect' = Append(incorrect, ret)
         /\ UNCHANGED <<result, client_times, samples_gathered,
                        error_count, error_executions>>
    ELSE /\ result' = [result EXCEPT !.invocations = Append(@, ret)]
         /\ client_times' = Append(client_times, Seconds(ret.client))
         /\ samples_gathered' = samples_gathered + 1
         /\ UNCHANGED <<incorrect, error_count, error_executions>>

\* the body of `for res in results`: res.get() raised, or returned a
\* mislabeled sample, or returned a sample that is counted
Fold(ret) ==
    IF ret.kind = "raise"
    THEN /\ error_count' = error_count + 1
         /\ error_executions' = Append(error_executions, "exception")
         /\ UNCHANGED <<incorrect, result, client_times, samples_gathered>>
    ELSE IF IsIncorrect(run_type, ret.cold_start)
    THEN /\ incorrect' = Append(incorrect, ret)
         /\ UNCHANGED <<result, client_times, samples_gathered,
                        error_count, error_executions>>
    ELSE /\ result' = [result EXCEPT !.invocations = Append(@, ret)]
         /\ client_times' = Append(client_times, Seconds(ret.client))
         /\ samples_gathered' = samples_gathered + 1
         /\ UNCHANGED <<incorrect, error_count, error_executions>>

\* one iteration of `for res in results`: res.get() blocks until that
\* invocation has completed, then its outcome is folded
GetResult ==
    /\ pc = "collect"
    /\ res_idx <= Len(results)
    /\ results[res_idx] # Pending
    /\ Fold(results[res_idx])
    /\ history' = [history EXCEPT ![Len(history)] = Append(@, results[res_idx])]
    /\ res_idx' = res_idx + 1
    /\ UNCHANGED <<args, backend, pc, samples_generated, results, incorrect_executions,
                   incorrect_count, files, stats_input, stats_calls, enforce_calls, budget>>

\* a batch end with an abort threshold: any error or mislabeled sample so
\* far halts the run
EndBatch_AbortsOnFailures ==
    /\ pc = "collect"
    /\ res_idx > Len(results)
    /\ IF Len(incorrect) > 0
       THEN /\ incorrect_executions' = incorrect_executions \o incorrect
            /\ incorrect_count' = incorrect_count + Len(incorrect)
       ELSE UNCHANGED <<incorrect_executions, incorrect_count>>
    /\ pc' = IF error_count > 0 \/ Len(incorrect) > 0 THEN "aborted" ELSE "loop"
    /\ UNCHANGED <<args, backend, samples_gathered, samples_generated, client_times,
                   result, results, res_idx, incorrect, error_count,
                   error_executions, files, stats_input, stats_calls, enforce_calls,
                   history, budget>>

\* result.end() indented into the while loop: the result is sealed at the
\* end of every batch
EndBatch_SealsResult ==
    /\ pc = "collect"
    /\ res_idx > Len(results)
    /\ IF Len(incorrect) > 0
       THEN /\ incorrect_executions' = incorrect_executions \o incorrect
            /\ incorrect_count' = incorrect_count + Len(incorrect)
       ELSE UNCHANGED <<incorrect_executions, incorrect_count>>
    /\ result' = [result EXCEPT !.state = "ended"]
    /\ pc' = "loop"
    /\ UNCHANGED <<args, backend, samples_gathered, samples_generated, client_times,
                   results, res_idx, incorrect, error_count,
                   error_executions, files, stats_input, stats_calls, enforce_calls,
                   history, budget>>

\* a collect loop that is left after the first result, the other
\* invocations of the batch still running
EndBatch_LeavesEarly ==
    /\ pc = "collect"
    /\ res_idx > 1
    /\ IF Len(incorrect) > 0
       THEN /\ incorrect_executions' = incorrect_executions \o incorrect
            /\ incorrect_count' = incorrect_count + Len(incorrect)
       ELSE UNCHANGED <<incorrect_executions, incorrect_count>>
    /\ pc' = "loop"
    /\ UNCHANGED <<args, backend, samples_gathered, samples_generated, client_times,
                   result, results, res_idx, incorrect, error_count,
                   error_executions, files, stats_input, stats_calls, enforce_calls,
                   history, budget>>

\* after the collect loop: the progress log line, then the batch's incorrect
\* samples are added to the run's
EndBatch ==
    /\ pc = "collect"
    /\ res_idx > Len(results)
    /\ IF Len(incorrect) > 0
       THEN /\ incorrect_executions' = incorrect_executions \o incorrect
            /\ incorrect_count' = incorrect_count + Len(incorrect)
       ELSE UNCHANGED <<incorrect_executions, incorrect_count>>
    /\ pc' = "loop"
    /\ UNCHANGED <<args, backend, samples_gathered, samples_generated, client_times,
                   result, results, res_idx, incorrect, error_count,
                   error_executions, files, stats_input, stats_calls, enforce_calls,
                   history, budget>>

\* a loop that gives up once two invocations have failed or were mislabeled
EndResult_GivesUp ==
    /\ pc = "loop"
    /\ \/ ~LoopCond(samples_gathered, repetitions)
       \/ error_count + incorrect_count >= 2
    /\ result' = [result EXCEPT !.state = "ended"]
    /\ pc' = "stats"
    /\ UNCHANGED <<args, backend, samples_gathered, samples_generated, client_times,
                   results, res_idx, incorrect, incorrect_executions,
                   incorrect_count, error_count, error_executions, files,
                   stats_input, stats_calls, enforce_calls, history, budget>>

\* the loop is left: result.end()
EndResult ==
    /\ pc = "loop"
    /\ ~LoopCond(samples_gathered, repetitions)
    /\ result' = [result EXCEPT !.state = "ended"]
    /\ pc' = "stats"
    /\ UNCHANGED <<args, backend, samples_gathered, samples_generated, client_times,
                   results, res_idx, incorrect, incorrect_executions,
                   incorrect_count, error_count, error_executions, files,
                   stats_input, stats_calls, enforce_calls, history, budget>>

\* the confidence levels of compute_statistics, [0.95, 0.99], in percent
Alphas == <<95, 99>>

\* a test that also takes the non-parametric interval at the threshold
UsesNonParametric_AtThreshold(n) == n >= NonParametricThreshold

\* if len(times) > 20
UsesNonParametric(n) == n > NonParametricThreshold

RECURSIVE IntervalCalls(_, _)
\* the body of `for alpha in [0.95, 0.99]`: ci_tstudents(alpha, times) and,
\* past the threshold, ci_le_boudec(alpha, times)
IntervalCalls(alphas, n) ==
    IF alphas = <<>> THEN <<>>
    ELSE <<<<"ci_tstudents", Head(alphas)>>>>
         \o (IF UsesNonParametric(n) THEN <<<<"ci_le_boudec", Head(alphas)>>>>
             ELSE <<>>)
         \o IntervalCalls(Tail(alphas), n)

\* the calls compute_statistics(times) makes: basic_stats(times), then the
\* intervals for each alpha
StatisticsCalls(times) ==
    <<<<"basic_stats", 0>>>> \o IntervalCalls(Alphas, Len(times))

\* self.compute_statistics(client_times)
ComputeStatistics ==
    /\ pc = "stats"
    /\ stats_input' = client_times
    /\ stats_calls' = StatisticsCalls(client_times)
    /\ pc' = "write"
    /\ UNCHANGED <<args, backend, accumulators, samples_generated, results, res_idx,
                   files, enforce_calls, history, budget>>

\* a statistics block that reports the invocations issued as
\* samples_generated
Document_TotalIssued ==
    [kind |-> "json",
     invocations |-> result.invocations,
     samples_generated |-> samples_generated,
     failures |-> error_executions,
     failures_count |-> error_count,
     incorrect |-> incorrect_executions,
     incorrect_count |-> incorrect_count]

\* the document written to out_f: the serialized result and "statistics"
Document ==
    [kind |-> "json",
     invocations |-> result.invocations,
     samples_generated |-> samples_gathered,
     failures |-> error_executions,
     failures_count |-> error_count,
     incorrect |-> incorrect_executions,
     incorrect_count |-> incorrect_count]

\* out_f.write(serialize({...})) and the end of the two `with` blocks
WriteResult ==
    /\ pc = "write"
    /\ files' = (FileName(run_type, suffix) :> Document) @@ files
    /\ pc' = "done"
    /\ UNCHANGED <<args, backend, accumulators, samples_generated, results, res_idx,
                   stats_input, stats_calls, enforce_calls, history, budget>>

RunNext ==
    \/ Initialize
    \/ EnforceColdStart
    \/ IssueBatch
    \/ \E i \in 1..MaxInvocations + 1 : i <= Len(results) /\ SyncInvoke(i)
    \/ GetResult
    \/ EndBatch
    \/ EndResult
    \/ ComputeStatistics
    \/ WriteResult

Next == RunNext

Spec == Init /\ [][Next]_vars

\* the control loop and the pool workers are threads that keep running, and
\* a synchronous invocation returns or raises (its network timeout)
LiveInit ==
    /\ run_type \in RunType
    /\ repetitions \in 1..LiveMaxRepetitions
    /\ invocations \in 1..LiveMaxInvocations
    /\ suffix = ""
    /\ files = [n \in {} |-> NoFile]
    /\ budget = MaxBad
    /\ RunLocalsInit
    /\ NoSweep
    /\ NoProc
    /\ NoRunYet
    /\ rng = SeededDraws
    /\ outage = FALSE

LiveSpec == LiveInit /\ [][Next]_vars /\ WF_vars(Next)

\* the series of n latencies explored: all fast, all slow, alternating
StatsSeries(n) ==
    { [k \in 1..n |-> 1], [k \in 1..n |-> 3],
      [k \in 1..n |-> IF k % 2 = 1 THEN 1 ELSE 3] }

\* the run is about to call compute_statistics(client_times) on a series of
\* any length up to StatsMaxSamples
StatsInit ==
    /\ run_type \in {"COLD", "WARM"}
    /\ repetitions = 1
    /\ invocations = 1
    /\ suffix = ""
    /\ pc = "stats"
    /\ \E n \in 1..StatsMaxSamples : client_times \in StatsSeries(n)
    /\ samples_gathered = Len(client_times)
    /\ samples_generated = Len(client_times)
    /\ result = [state |-> "ended",
                 invocations |-> [k \in 1..Len(client_times) |->
                    [kind |-> "ret", cold_start |-> (run_type = "COLD"),
                     client |-> 1000 * client_times[k]]]]
    /\ results = <<>>
    /\ res_idx = 0
    /\ incorrect = <<>>
    /\ incorrect_executions = <<>>
    /\ incorrect_count = 0
    /\ error_count = 0
    /\ error_executions = <<>>
    /\ stats_input = <<>>
    /\ stats_calls = <<>>
    /\ enforce_calls = 0
    /\ history = <<>>
    /\ files = (FileName(run_type, suffix) :> EmptyFile)
    /\ budget = 0
    /\ NoSweep
    /\ NoProc
    /\ NoRunYet
    /\ rng = SeededDraws
    /\ outage = FALSE

StatsNext ==
    \/ ComputeStatistics
    \/ WriteResult

StatsSpec == StatsInit /\ [][StatsNext]_vars

\* a run against a backend that may be in outage for the whole run: each
\* invocation then raises or returns a mislabeled outcome
StallInit ==
    /\ run_type \in RunType
    /\ repetitions \in 1..StallMaxRepetitions
    /\ invocations \in 1..StallMaxInvocations
    /\ suffix = ""
    /\ files = [n \in {} |-> NoFile]
    /\ budget = StallMaxBad
    /\ RunLocalsInit
    /\ NoSweep
    /\ NoProc
    /\ NoRunYet
    /\ rng = SeededDraws
    /\ outage \in BOOLEAN

StallSpec == StallInit /\ [][Next]_vars /\ WF_vars(Next)

(* ------------------------------------------------------------------ *)
(* The Sweep Driver: run and run_configuration                         *)
(* ------------------------------------------------------------------ *)

\* the entries of settings["experiments"] explored: the four recognised
\* names and one that is none of them
ExperimentNames == {"cold", "warm", "burst", "sequential", "hot"}

\* a chain whose burst and sequential branches start a COLD run
Dispatch_BurstRuns(experiment_type) ==
    IF experiment_type = "cold" THEN "COLD"
    ELSE IF experiment_type = "warm" THEN "WARM"
    ELSE IF experiment_type = "burst" THEN "COLD"
    ELSE IF experiment_type = "sequential" THEN "COLD"
    ELSE "raise"

\* the if/elif chain of run_configuration: the run type an entry starts a
\* run of, "pass" for an entry that does nothing, "raise" for RuntimeError
Dispatch(experiment_type) ==
    IF experiment_type = "cold" THEN "COLD"
    ELSE IF experiment_type = "warm" THEN "WARM"
    ELSE IF experiment_type = "burst" THEN "pass"
    ELSE IF experiment_type = "sequential" THEN "pass"
    ELSE "raise"

\* the suffix run() passes to run_configuration: none when no memory size is
\* configured, str(memory) inside the loop over memory_sizes
CurrentSuffix ==
    IF mem_idx = 0 THEN "" ELSE ToString(memory_sizes[mem_idx])

\* a call of run() with the settings of the experiment
SweepInit ==
    /\ experiments \in UNION { [1..n -> ExperimentNames] : n \in 0..MaxExperiments }
    /\ memory_sizes \in { [i \in 1..n |-> 128 * i] : n \in 0..MaxMemorySizes }
    /\ repetitions \in 1..SweepMaxRepetitions
    /\ invocations \in 1..SweepMaxInvocations
    /\ sweep_pc = "run"
    /\ mem_idx = 0
    /\ exp_idx = 0
    /\ function_memory = 0
    /\ deployed_memory = 0
    /\ cached_memory = 0
    /\ calls = <<>>
    /\ run_type = "NONE"
    /\ suffix = ""
    /\ pc = "idle"
    /\ FreshLocals
    /\ files = [n \in {} |-> NoFile]
    /\ budget = SweepMaxBad
    /\ NoProc
    /\ NoRunYet
    /\ rng = SeededDraws
    /\ outage = FALSE

\* run(): no memory size is configured, run_configuration(settings,
\* repetitions) is called; otherwise the loop over memory_sizes is entered
RunBegin ==
    /\ sweep_pc = "run"
    /\ IF Len(memory_sizes) = 0
       THEN /\ sweep_pc' = "configuration"
            /\ mem_idx' = 0
            /\ exp_idx' = 1
       ELSE /\ sweep_pc' = "memory"
            /\ mem_idx' = 1
            /\ exp_idx' = 0
    /\ UNCHANGED <<experiments, memory_sizes, function_memory, deployed_memory,
                   cached_memory, calls, run_type, repetitions, invocations,
                   suffix, pc, locals, files, budget, procVars,
                   backend, rng, outage>>

\* a loop body that goes from the deployment update straight to the runs
UpdateFunction_NoCache ==
    /\ sweep_pc = "memory"
    /\ function_memory' = memory_sizes[mem_idx]
    /\ deployed_memory' = memory_sizes[mem_idx]
    /\ calls' = Append(calls, <<"update_function", ToString(memory_sizes[mem_idx])>>)
    /\ sweep_pc' = "configuration"
    /\ exp_idx' = 1
    /\ UNCHANGED <<experiments, memory_sizes, mem_idx, cached_memory,
                   run_type, repetitions, invocations, suffix, pc, locals,
                   files, budget, procVars, backend, rng, outage>>

\* self._function.memory = memory; deployment_client.update_function(...)
UpdateFunction ==
    /\ sweep_pc = "memory"
    /\ function_memory' = memory_sizes[mem_idx]
    /\ deployed_memory' = memory_sizes[mem_idx]
    /\ calls' = Append(calls, <<"update_function", ToString(memory_sizes[mem_idx])>>)
    /\ sweep_pc' = "cache"
    /\ UNCHANGED <<experiments, memory_sizes, mem_idx, exp_idx, cached_memory,
                   run_type, repetitions, invocations, suffix, pc, locals,
                   files, budget, procVars,
                   backend, rng, outage>>

\* sebs_client.cache_client.update_function(self._function), then
\* run_configuration(settings, repetitions, suffix=str(memory)) is called
UpdateCache ==
    /\ sweep_pc = "cache"
    /\ cached_memory' = function_memory
    /\ calls' = Append(calls, <<"cache_update", ToString(function_memory)>>)
    /\ sweep_pc' = "configuration"
    /\ exp_idx' = 1
    /\ UNCHANGED <<experiments, memory_sizes, mem_idx, function_memory,
                   deployed_memory, run_type, repetitions, invocations, suffix,
                   pc, locals, files, budget, procVars,
                   backend, rng, outage>>

\* run_configuration: the entry is cold or warm, _run_configuration is called
StartRun ==
    /\ sweep_pc = "configuration"
    /\ exp_idx <= Len(experiments)
    /\ Dispatch(experiments[exp_idx]) \in RunType
    /\ run_type' = Dispatch(experiments[exp_idx])
    /\ suffix' = CurrentSuffix
    /\ pc' = "init"
    /\ NewFrame
    /\ calls' = Append(calls, <<Dispatch(experiments[exp_idx]), CurrentSuffix>>)
    /\ sweep_pc' = "in_run"
    /\ UNCHANGED <<experiments, memory_sizes, mem_idx, exp_idx, function_memory,
                   deployed_memory, cached_memory, repetitions, invocations,
                   files, budget, procVars,
                   backend, rng, outage>>

\* _run_configuration returns: its frame is gone, the loop over the
\* experiments goes on
ReturnFromRun ==
    /\ sweep_pc = "in_run"
    /\ pc = "done"
    /\ pc' = "idle"
    /\ NewFrame
    /\ exp_idx' = exp_idx + 1
    /\ sweep_pc' = "configuration"
    /\ UNCHANGED <<experiments, memory_sizes, mem_idx, function_memory,
                   deployed_memory, cached_memory, calls, run_type, repetitions,
                   invocations, suffix, files, budget, procVars,
                   backend, rng, outage>>

\* run_configuration: the entry is burst or sequential, nothing is done
SkipEntry ==
    /\ sweep_pc = "configuration"
    /\ exp_idx <= Len(experiments)
    /\ Dispatch(experiments[exp_idx]) = "pass"
    /\ exp_idx' = exp_idx + 1
    /\ UNCHANGED <<experiments, memory_sizes, sweep_pc, mem_idx, function_memory,
                   deployed_memory, cached_memory, calls, run_type, repetitions,
                   invocations, suffix, pc, locals, files, budget, procVars,
                   backend, rng, outage>>

\* run_configuration: any other entry raises RuntimeError, which nothing
\* catches: it ends run()
RaiseUnknown ==
    /\ sweep_pc = "configuration"
    /\ exp_idx <= Len(experiments)
    /\ Dispatch(experiments[exp_idx]) = "raise"
    /\ sweep_pc' = "raised"
    /\ UNCHANGED <<experiments, memory_sizes, mem_idx, exp_idx, function_memory,
                   deployed_memory, cached_memory, calls, run_type, repetitions,
                   invocations, suffix, pc, locals, files, budget, procVars,
                   backend, rng, outage>>

\* run_configuration returns: the next memory size, or the end of run()
EndConfiguration ==
    /\ sweep_pc = "configuration"
    /\ exp_idx > Len(experiments)
    /\ IF mem_idx < Len(memory_sizes)
       THEN /\ mem_idx' = mem_idx + 1
            /\ sweep_pc' = "memory"
       ELSE /\ mem_idx' = mem_idx
            /\ sweep_pc' = "finished"
    /\ UNCHANGED <<experiments, memory_sizes, exp_idx, function_memory,
                   deployed_memory, cached_memory, calls, run_type, repetitions,
                   invocations, suffix, pc, locals, files, budget, procVars,
                   backend, rng, outage>>

SweepNext ==
    \/ RunBegin
    \/ UpdateFunction
    \/ UpdateCache
    \/ StartRun
    \/ ReturnFromRun
    \/ SkipEntry
    \/ RaiseUnknown
    \/ EndConfiguration
    \/ RunNext

SweepSpec == SweepInit /\ [][SweepNext]_vars

\* a call of run() with a generator that can return every value of
\* randrange(100) at each draw, and a backend that behaves
CounterInit ==
    /\ experiments \in UNION { [1..n -> ExperimentNames] : n \in 0..CounterMaxExperiments }
    /\ memory_sizes \in { [i \in 1..n |-> 128 * i] : n \in 0..CounterMaxMemorySizes }
    /\ repetitions = 1
    /\ invocations = 1
    /\ sweep_pc = "run"
    /\ mem_idx = 0
    /\ exp_idx = 0
    /\ function_memory = 0
    /\ deployed_memory = 0
    /\ cached_memory = 0
    /\ calls = <<>>
    /\ run_type = "NONE"
    /\ suffix = ""
    /\ pc = "idle"
    /\ FreshLocals
    /\ files = [n \in {} |-> NoFile]
    /\ budget = 0
    /\ NoProc
    /\ NoRunYet
    /\ rng = RandRange
    /\ outage = FALSE

CounterSpec == CounterInit /\ [][SweepNext]_vars

(* ------------------------------------------------------------------ *)
(* The Result Post-Processor: process                                  *)
(* ------------------------------------------------------------------ *)

\* the memory sizes of the model, for int(...) of a field of a file name
MemoryValues == { 128 * i : i \in 1..(MaxMemorySizes + ProcMaxMemorySizes + 1) }

\* the name f"{name}-processed{extension}" of the processed sibling of a file
Sibling(n) == Append(n, "-processed")

\* the name ends in "-processed"
IsSiblingName(n) == n # <<>> /\ n[Len(n)] = "-processed"

\* "processed" in f: f is the path glob returned, directory included
PathHasProcessed(n) == directory.names_processed \/ IsSiblingName(n)

\* os.path.exists(os.path.join(directory, "perf-cost", f"{name}-processed
\* {extension}")): `name` is the path glob returned and begins with
\* `directory` itself, so the joined path is the sibling's only when
\* `directory` is absolute (join drops what precedes an absolute part);
\* for a relative one it is a path below perf-cost that does not exist
SiblingExists(n) == directory.absolute /\ Sibling(n) \in DOMAIN files

\* os.path.splitext(os.path.basename(f))[0].split("_") without the
\* "-processed" ending of its last field
Fields(n) == IF IsSiblingName(n) THEN SubSeq(n, 1, Len(n) - 1) ELSE n

\* int(s): the number a string of digits stands for
ParseInt(str) == CHOOSE m \in MemoryValues : ToString(m) = str

\* provider-side execution times download_metrics can fill in
ProviderMs == {400, 600}

\* invoc.provider_times.execution: unset until download_metrics fills it
ProviderOf(invoc) ==
    IF "provider" \in DOMAIN invoc THEN invoc.provider ELSE 0

RECURSIVE RowBag(_, _, _)
\* the rows writer.writerow adds for the invocations of one file
RowBag(memory, exp_type, invocs) ==
    IF invocs = <<>> THEN EmptyBag
    ELSE SetToBag({ <<memory, exp_type, Head(invocs).cold_start,
                      Head(invocs).client, ProviderOf(Head(invocs))>> })
            (+) RowBag(memory, exp_type, Tail(invocs))

\* the experiments after download_metrics and the removal of the outputs,
\* as serialized into the sibling
ProcessedDocument(doc, ms) ==
    [kind |-> "json",
     invocations |->
        [k \in 1..Len(doc.invocations) |->
            [kind |-> "ret",
             cold_start |-> doc.invocations[k].cold_start,
             client |-> doc.invocations[k].client,
             provider |-> ms]]]

\* the document a run of type rt leaves that gathered n valid samples and
\* met no failure
RawDocument(rt, n) ==
    [kind |-> "json",
     invocations |->
        [k \in 1..n |->
            [kind |-> "ret", cold_start |-> (rt = "COLD"),
             client |-> CHOOSE t \in ClientMs(rt = "COLD") : TRUE]],
     samples_generated |-> n,
     failures |-> <<>>,
     failures_count |-> 0,
     incorrect |-> <<>>,
     incorrect_count |-> 0]

\* the suffixes of the runs of a sweep: str(memory), or none
ProcSuffixes == {""} \cup { ToString(128 * i) : i \in 1..ProcMaxMemorySizes }

\* the names of the raw result files the runs of a sweep write
RawNames == { FileName(rt, sfx) : rt \in {"COLD", "WARM"}, sfx \in ProcSuffixes }

\* the documents a raw result file of that name can hold after runs that
\* gathered k samples: a file without a suffix is written by cold and by
\* warm runs alike
RawDocuments(n, k) ==
    { RawDocument(rt, k) :
        rt \in { r \in {"COLD", "WARM"} : \E sfx \in ProcSuffixes :
                                             FileName(r, sfx) = n } }

\* the directories process() is called on: the raw result files of sweeps
RawDirectories ==
    UNION { { f \in [S -> UNION { RawDocuments(n, k) : n \in S }] :
                \A n \in S : f[n] \in RawDocuments(n, k) } :
            S \in SUBSET RawNames, k \in 1..ProcMaxSamples }

\* a first call process(sebs_client, deployment_client, directory, ...)
ProcInit ==
    /\ files \in RawDirectories
    /\ directory \in [absolute : {TRUE}, names_processed : BOOLEAN]
    /\ proc_pc = "call"
    /\ todo = {}
    /\ csv = EmptyBag
    /\ pass = 0
    /\ prev_csv = EmptyBag
    /\ events = {}
    /\ run_type = "NONE"
    /\ repetitions = 1
    /\ invocations = 1
    /\ suffix = ""
    /\ pc = "idle"
    /\ FreshLocals
    /\ budget = 0
    /\ NoSweep
    /\ NoRunYet
    /\ rng = SeededDraws
    /\ outage = FALSE

runVars == <<run_type, repetitions, invocations, suffix, pc, locals, budget,
             sweepVars, backend, rng, outage>>

\* process() is called (again) on the directory, which the caller spells
\* as an absolute or as a relative path: result.csv is opened for writing,
\* which empties it, the header is written and glob lists the *.json files
OpenCsv ==
    /\ proc_pc \in {"call", "returned", "crashed"}
    /\ pass < MaxPasses
    /\ pass' = pass + 1
    /\ \E absolute \in BOOLEAN :
          directory' = [directory EXCEPT !.absolute = absolute]
    /\ prev_csv' = IF proc_pc = "returned" THEN csv ELSE prev_csv
    /\ csv' = EmptyBag
    /\ todo' = DOMAIN files
    /\ proc_pc' = "loop"
    /\ events' = { e \in events : e[2] = "return" }
    /\ UNCHANGED <<files, runVars>>

\* the loop body for a path that contains "processed": the file is loaded
\* and its rows are written
ReadProcessed(f) ==
    /\ proc_pc = "loop"
    /\ f \in todo
    /\ PathHasProcessed(f)
    /\ todo' = todo \ {f}
    /\ IF Len(Fields(f)) < 3
       THEN \* fname[2]: IndexError
            /\ proc_pc' = "crashed"
            /\ events' = events \cup {<<pass, "load", f>>, <<pass, "IndexError", f>>}
            /\ UNCHANGED csv
       ELSE /\ csv' = csv (+) RowBag(ParseInt(Fields(f)[3]), Fields(f)[1],
                                     files[f].invocations)
            /\ events' = events \cup {<<pass, "load", f>>, <<pass, "rows", f>>}
            /\ UNCHANGED proc_pc
    /\ UNCHANGED <<directory, pass, prev_csv, files, runVars>>

\* the loop body for a raw file whose sibling exists: continue
SkipProcessed(f) ==
    /\ proc_pc = "loop"
    /\ f \in todo
    /\ ~PathHasProcessed(f)
    /\ SiblingExists(f)
    /\ todo' = todo \ {f}
    /\ events' = events \cup {<<pass, "skip", f>>}
    /\ UNCHANGED <<directory, proc_pc, csv, pass, prev_csv, files, runVars>>

\* the loop body for a raw file without one: the name is decoded, the file
\* loaded, the metrics downloaded, the sibling written, the rows written
ProcessRaw(f) ==
    /\ proc_pc = "loop"
    /\ f \in todo
    /\ ~PathHasProcessed(f)
    /\ ~SiblingExists(f)
    /\ todo' = todo \ {f}
    /\ IF Len(Fields(f)) < 3
       THEN \* fname[2]: IndexError
            /\ proc_pc' = "crashed"
            /\ events' = events \cup {<<pass, "IndexError", f>>}
            /\ UNCHANGED <<csv, files>>
       ELSE \E ms \in ProviderMs :
            IF directory.absolute
            THEN /\ files' = (Sibling(f) :> ProcessedDocument(files[f], ms)) @@ files
                 /\ csv' = csv (+) RowBag(ParseInt(Fields(f)[3]), Fields(f)[1],
                                          ProcessedDocument(files[f], ms).invocations)
                 /\ events' = events \cup {<<pass, "load", f>>, <<pass, "metrics", f>>,
                                           <<pass, "write", f>>, <<pass, "rows", f>>}
                 /\ UNCHANGED proc_pc
            ELSE \* open(...-processed.json, "w"): FileNotFoundError
                 /\ proc_pc' = "crashed"
                 /\ events' = events \cup {<<pass, "load", f>>, <<pass, "metrics", f>>,
                                           <<pass, "FileNotFoundError", f>>}
                 /\ UNCHANGED <<csv, files>>
    /\ UNCHANGED <<directory, pass, prev_csv, runVars>>

\* the loop over the files ends, result.csv is closed, process() returns
EndPass ==
    /\ proc_pc = "loop"
    /\ todo = {}
    /\ proc_pc' = "returned"
    /\ events' = events \cup {<<pass, "return", <<>>>>}
    /\ UNCHANGED <<directory, todo, csv, pass, prev_csv, files, runVars>>

ProcNext ==
    \/ OpenCsv
    \/ \E f \in DOMAIN files : ReadProcessed(f)
    \/ \E f \in DOMAIN files : SkipProcessed(f)
    \/ \E f \in DOMAIN files : ProcessRaw(f)
    \/ EndPass

ProcSpec == ProcInit /\ [][ProcNext]_vars

(* ------------------------------------------------------------------ *)
(* Vocabulary of the properties                                        *)
(* ------------------------------------------------------------------ *)

RECURSIVE Flat(_)
\* the outcomes of all batches, in the order the control loop folded them
Flat(batches) ==
    IF batches = <<>> THEN <<>> ELSE Head(batches) \o Flat(Tail(batches))

\* the Classifier policy: a completed invocation is Incorrect when the run
\* is COLD and it was no cold start, or the run is WARM and it was one
ClassifiedIncorrect(rt, o) ==
    /\ o.kind = "ret"
    /\ \/ rt = "COLD" /\ o.cold_start = FALSE
       \/ rt = "WARM" /\ o.cold_start = TRUE

\* a completed invocation that is not Incorrect is Valid
ClassifiedValid(rt, o) == o.kind = "ret" /\ ~ClassifiedIncorrect(rt, o)

\* the outcomes of `outs` the Classifier policy calls Valid, Incorrect, failed
ValidOf(rt, outs) ==
    LET Keep(o) == ClassifiedValid(rt, o) IN SelectSeq(outs, Keep)
IncorrectOf(rt, outs) ==
    LET Keep(o) == ClassifiedIncorrect(rt, o) IN SelectSeq(outs, Keep)
FailedOf(outs) ==
    LET Keep(o) == o.kind = "raise" IN SelectSeq(outs, Keep)

\* the latency series of a sequence of outcomes
LatenciesOf(outs) == [k \in 1..Len(outs) |-> Seconds(outs[k].client)]

\* the loop has been left; compute_statistics has been called
AfterLoop == pc \in {"stats", "write", "done"}
StatsCalled == pc \in {"write", "done"}

\* an invocation of the current batch is still in flight
InFlight == \E k \in 1..Len(results) : results[k] = Pending

\* every incorrect sample the run holds: those of earlier batches and, while
\* a batch is being collected, those of that batch
AllIncorrect ==
    IF pc = "collect" THEN incorrect_executions \o incorrect
    ELSE incorrect_executions

(* ------------------------------------------------------------------ *)
(* Run Driver properties                                               *)
(* ------------------------------------------------------------------ *)

\* C1, as the specification states it: when compute_statistics is called
\* the number of valid samples gathered equals repetitions exactly.
\* TLC refutes this: the last batch can bring more valid samples than the
\* target still lacked.
C1_ExactlyRepetitions ==
    StatsCalled =>
        /\ samples_gathered = repetitions
        /\ Len(stats_input) = repetitions

\* C1, amended: when compute_statistics is called the latency series has
\* as many entries as valid samples were gathered, that number is at least
\* repetitions and less than repetitions + concurrency, and the samples
\* gathered before the last batch were fewer than repetitions.
C1_AtLeastRepetitions ==
    StatsCalled =>
        /\ Len(stats_input) = samples_gathered
        /\ samples_gathered >= repetitions
        /\ samples_gathered < repetitions + invocations
        /\ samples_gathered
             - Len(ValidOf(run_type, history[Len(history)])) < repetitions

\* a completed run whose last batch overshot the target
C1_Witness ==
    /\ pc = "done"
    /\ samples_gathered > repetitions
    /\ Len(stats_input) = samples_gathered

\* C2: in every state samples_gathered is the length of client_times, and
\* client_times holds exactly the latencies of the outcomes the Classifier
\* policy calls Valid, in the order folded: no Incorrect and no failed
\* invocation is counted or enters the series given to compute_statistics.
C2_CountIsSeriesOfValid ==
    /\ samples_gathered = Len(client_times)
    /\ client_times = LatenciesOf(ValidOf(run_type, Flat(history)))
    /\ StatsCalled => stats_input = LatenciesOf(ValidOf(run_type, Flat(history)))

\* statistics were computed in a run that saw an Incorrect and a failed
\* invocation
C2_Witness ==
    /\ StatsCalled
    /\ IncorrectOf(run_type, Flat(history)) # <<>>
    /\ FailedOf(Flat(history)) # <<>>
    /\ Len(stats_input) < Len(Flat(history))

\* C3: for every run type and every value of is_cold_start the label test
\* calls a completed invocation Incorrect exactly when the run is COLD and
\* it was no cold start or the run is WARM and it was one; and the buckets
\* of the run hold the folded outcomes accordingly: the Incorrect ones are
\* the incorrect samples, all others that completed were added to the result.
C3_Classification ==
    /\ \A rt \in RunType : \A c \in BOOLEAN :
          IsIncorrect(rt, c) <=>
             ((rt = "COLD" /\ c = FALSE) \/ (rt = "WARM" /\ c = TRUE))
    /\ pc # "idle" =>
          /\ AllIncorrect = IncorrectOf(run_type, Flat(history))
          /\ result.invocations = ValidOf(run_type, Flat(history))

\* a BURST run that counted a cold start and a warm one as valid
C3_Witness ==
    /\ run_type = "BURST"
    /\ \E k \in 1..Len(result.invocations) : result.invocations[k].cold_start
    /\ \E k \in 1..Len(result.invocations) : ~result.invocations[k].cold_start
    /\ incorrect_executions = <<>>
    /\ pc = "done"

\* the invocations folded so far: those of the batches before the current
\* one and the part of the current batch the collect loop has passed
Folded == Len(Flat(history))

\* C4: each batch issues exactly `concurrency` invocations and every one of
\* them ends in exactly one of the three buckets, a raising invocation
\* included: while a batch is collected the buckets hold the invocations
\* folded so far, and at the end of every batch count_gathered +
\* incorrect_count + error_count = concurrency * batches issued.
C4_EveryInvocationAccounted ==
    /\ pc = "collect" => Len(results) = invocations
    /\ samples_generated = invocations * Len(history)
    /\ samples_gathered + Len(AllIncorrect) + error_count = Folded
    /\ Len(result.invocations) = samples_gathered
    /\ Len(error_executions) = error_count
    /\ error_count = Len(FailedOf(Flat(history)))
    /\ pc \in {"loop", "stats", "write", "done"} =>
          /\ \A b \in 1..Len(history) : Len(history[b]) = invocations
          /\ samples_gathered + incorrect_count + error_count
                = invocations * Len(history)

\* a batch ended whose first invocation raised and whose later ones were
\* still folded, one as valid and one as incorrect
C4_Witness ==
    /\ pc = "loop"
    /\ Len(history) = 1
    /\ invocations = 3
    /\ history[1][1].kind = "raise"
    /\ samples_gathered = 1
    /\ incorrect_count = 1
    /\ error_count = 1

\* C5: in a COLD run enforce_cold_start is called once per batch, before the
\* batch is issued and while no invocation is in flight; in a WARM run it is
\* never called. The calls of a COLD run number its batches.
C5_EnforceOncePerBatch ==
    /\ run_type = "COLD" =>
          enforce_calls = Len(history) + (IF pc = "issue" THEN 1 ELSE 0)
    /\ run_type = "WARM" => enforce_calls = 0 /\ pc # "issue"
    /\ pc = "issue" => ~InFlight /\ run_type = "COLD"
    /\ pc = "collect" /\ run_type = "COLD" => enforce_calls = Len(history)

\* a completed COLD run of three batches of two invocations: three calls
C5_Witness ==
    /\ run_type = "COLD"
    /\ pc = "done"
    /\ invocations = 2
    /\ Len(history) = 3
    /\ enforce_calls = 3
    /\ samples_generated = 6

\* the verdicts of the Classifier policy for the outcomes of one batch
Verdicts(rt, batch) ==
    [k \in 1..Len(batch) |->
        IF batch[k].kind = "raise" THEN "error"
        ELSE IF ClassifiedIncorrect(rt, batch[k]) THEN "incorrect"
        ELSE "valid"]

\* the valid samples of the first n batches
ValidUpTo(n) == Len(ValidOf(run_type, Flat(SubSeq(history, 1, n))))

\* C6: the loop is left after the first batch at whose end the valid
\* samples have reached repetitions, no batch is issued after that, and the
\* final incorrect_count and error_count are the totals over the batches
\* issued. repetitions=5, concurrency=5 and an all-valid batch: one batch,
\* count_gathered=5, incorrect_count=0. repetitions=3, concurrency=2 and
\* batches [valid, incorrect], [valid, valid]: two batches, count_gathered=3,
\* incorrect_count=1.
C6_StopsAtFirstSufficientBatch ==
    /\ [](AfterLoop =>
            /\ Len(history) >= 1
            /\ ValidUpTo(Len(history)) >= repetitions
            /\ ValidUpTo(Len(history) - 1) < repetitions
            /\ samples_gathered = ValidUpTo(Len(history))
            /\ incorrect_count = Len(IncorrectOf(run_type, Flat(history)))
            /\ error_count = Len(FailedOf(Flat(history))))
    /\ [](pc = "loop" /\ Len(history) >= 1
             /\ ValidUpTo(Len(history)) >= repetitions
          => ~ENABLED (EnforceColdStart \/ IssueBatch))
    /\ [][AfterLoop => history' = history /\ AfterLoop']_vars
    /\ [](/\ repetitions = 5 /\ invocations = 5
          /\ Len(history) >= 1
          /\ Verdicts(run_type, history[1])
                = <<"valid", "valid", "valid", "valid", "valid">>
          => /\ Len(history) = 1
             /\ pc # "collect" => samples_gathered = 5 /\ incorrect_count = 0)
    /\ [](/\ repetitions = 3 /\ invocations = 2
          /\ Len(history) >= 2
          /\ Verdicts(run_type, history[1]) = <<"valid", "incorrect">>
          /\ Verdicts(run_type, history[2]) = <<"valid", "valid">>
          => /\ Len(history) = 2
             /\ pc # "collect" => samples_gathered = 3 /\ incorrect_count = 1)

\* the second scenario, completed
C6_Witness ==
    /\ pc = "done"
    /\ repetitions = 3 /\ invocations = 2
    /\ Len(history) = 2
    /\ Verdicts(run_type, history[1]) = <<"valid", "incorrect">>
    /\ Verdicts(run_type, history[2]) = <<"valid", "valid">>
    /\ samples_gathered = 3 /\ incorrect_count = 1

\* the first scenario, completed: a COLD run, five cold starts in one batch
C6_FirstScenario ==
    /\ pc = "done"
    /\ run_type = "COLD"
    /\ repetitions = 5 /\ invocations = 5
    /\ Len(history) = 1
    /\ \A k \in 1..5 : history[1][k].kind = "ret" /\ history[1][k].cold_start
    /\ samples_gathered = 5 /\ incorrect_count = 0

\* the run is Done: the result is sealed and the document is written
RunDone ==
    /\ pc = "done"
    /\ result.state = "ended"
    /\ FileName(run_type, suffix) \in DOMAIN files
    /\ files[FileName(run_type, suffix)].kind = "json"

\* C7: errors and label mismatches never halt a run. At the loop test with
\* count_gathered < repetitions another batch (with its enforcement, in a
\* COLD run) can always be started, whatever errors and incorrect samples the
\* batches so far brought, and it is started; and with a backend that keeps
\* returning valid outcomes in the end, every run reaches Done.
C7_NeverHalts ==
    /\ [](pc = "loop" /\ samples_gathered < repetitions
            => ENABLED (EnforceColdStart \/ IssueBatch))
    /\ (pc = "loop" /\ samples_gathered < repetitions) ~> (pc = "collect")
    /\ [](pc \in {"init", "loop", "issue", "collect", "stats", "write", "done"})
    /\ <>RunDone

\* a run that reached Done although a batch brought an error and an
\* incorrect sample and no valid one
C7_Witness ==
    /\ RunDone
    /\ Len(history) >= 2
    /\ Verdicts(run_type, history[1]) = <<"error", "incorrect">>
    /\ error_count = 1
    /\ incorrect_count = 1

(* ------------------------------------------------------------------ *)
(* Sweep Driver properties                                             *)
(* ------------------------------------------------------------------ *)

\* the runs of the Run Driver the sweep has started, in order: run type and
\* suffix
RunCalls ==
    LET IsRun(c) == c[1] \in RunType IN SelectSeq(calls, IsRun)

\* the names run_configuration recognises
KnownNames == {"cold", "warm", "burst", "sequential"}

UnknownEntry == \E k \in 1..Len(experiments) : experiments[k] \notin KnownNames

RECURSIVE RunsOfEntries(_, _)
\* the runs one pass over the entries is to start: one per cold and per warm
\* entry, none for burst and sequential, and none from the first entry on
\* that is none of the four
RunsOfEntries(entries, sfx) ==
    IF entries = <<>> THEN <<>>
    ELSE IF Head(entries) = "cold"
         THEN <<<<"COLD", sfx>>>> \o RunsOfEntries(Tail(entries), sfx)
    ELSE IF Head(entries) = "warm"
         THEN <<<<"WARM", sfx>>>> \o RunsOfEntries(Tail(entries), sfx)
    ELSE IF Head(entries) \in {"burst", "sequential"}
         THEN RunsOfEntries(Tail(entries), sfx)
    ELSE <<>>

\* the suffixes of the sweep: none when no memory size is configured
SweepSuffixes ==
    IF memory_sizes = <<>> THEN <<"">>
    ELSE [k \in 1..Len(memory_sizes) |-> ToString(memory_sizes[k])]

RECURSIVE RunsOfSuffixes(_)
RunsOfSuffixes(sfxs) ==
    IF sfxs = <<>> THEN <<>>
    ELSE RunsOfEntries(experiments, Head(sfxs)) \o RunsOfSuffixes(Tail(sfxs))

\* the runs of the whole sweep: an entry that is none of the four ends it in
\* the first pass
RunsOfSweep ==
    IF UnknownEntry THEN RunsOfEntries(experiments, Head(SweepSuffixes))
    ELSE RunsOfSuffixes(SweepSuffixes)

IsPrefix(a, b) == Len(a) <= Len(b) /\ a = SubSeq(b, 1, Len(a))

\* C8: burst and sequential entries start no run (no invocation, no output
\* file), and an entry that is none of cold, warm, burst, sequential raises
\* at once: the runs started are those of the cold and warm entries before
\* it in the first pass, no later entry and no later memory size gets a run,
\* and nothing happens after the error.
C8_NoOpAndFatalEntries ==
    /\ [](/\ IsPrefix(RunCalls, RunsOfSweep)
          /\ \A k \in 1..Len(RunCalls) : RunCalls[k][1] \in {"COLD", "WARM"}
          /\ DOMAIN files
               \subseteq { FileName(RunCalls[k][1], RunCalls[k][2]) : k \in 1..Len(RunCalls) }
          /\ pc # "init" =>
               { FileName(RunCalls[k][1], RunCalls[k][2]) : k \in 1..Len(RunCalls) }
                  \subseteq DOMAIN files
          /\ pc # "idle" => /\ sweep_pc = "in_run"
                            /\ Dispatch(experiments[exp_idx]) = run_type
                            /\ experiments[exp_idx] \in {"cold", "warm"}
          /\ sweep_pc \in {"finished", "raised"} => RunCalls = RunsOfSweep
          /\ sweep_pc = "finished" => ~UnknownEntry
          /\ sweep_pc = "raised" =>
                /\ experiments[exp_idx] \notin KnownNames
                /\ \A k \in 1..(exp_idx - 1) : experiments[k] \in KnownNames
                /\ mem_idx <= 1
                /\ pc = "idle"
          /\ (/\ sweep_pc = "configuration"
              /\ exp_idx <= Len(experiments)
              /\ experiments[exp_idx] \notin KnownNames)
                => ENABLED RaiseUnknown /\ ~ENABLED (StartRun \/ SkipEntry))
    /\ [][sweep_pc # "raised"]_vars
    /\ [][/\ sweep_pc = "configuration"
          /\ exp_idx <= Len(experiments)
          /\ experiments[exp_idx] \in {"burst", "sequential"}
          => /\ exp_idx' = exp_idx + 1
             /\ UNCHANGED <<calls, files, pc, samples_generated, results>>]_vars

\* a sweep over two memory sizes whose entries are a burst and an
\* unrecognised one: it ended in the error, with no run and no file
C8_Witness ==
    /\ sweep_pc = "raised"
    /\ Len(memory_sizes) = 2
    /\ experiments = <<"burst", "hot">>
    /\ RunCalls = <<>>
    /\ DOMAIN files = {}
    /\ calls = <<<<"update_function", "128">>, <<"cache_update", "128">>>>

\* a sweep that ran a cold run and then met an unrecognised entry
C8_RaisedAfterRun ==
    /\ sweep_pc = "raised"
    /\ Len(memory_sizes) = 2
    /\ experiments = <<"cold", "hot">>
    /\ RunCalls = <<<<"COLD", "128">>>>

(* ------------------------------------------------------------------ *)
(* Idempotence of the Result Post-Processor                            *)
(* ------------------------------------------------------------------ *)

\* the raw result files of the directory
RawFiles == { n \in DOMAIN files : ~IsSiblingName(n) }

RECURSIVE InvocationsIn(_)
\* the number of invocations the files of S hold
InvocationsIn(S) ==
    IF S = {} THEN 0
    ELSE LET n == CHOOSE x \in S : TRUE
         IN Len(files[n].invocations) + InvocationsIn(S \ {n})

\* call p of process() returned
Completed(p) == <<p, "return", <<>>>> \in events

\* an earlier call of process() on the directory returned
ProcessedBefore == \E p \in 1..(pass - 1) : Completed(p)

\* what call p did to file n
DoneTo(p, n) == { e[2] : e \in { x \in events : x[1] = p /\ x[3] = n } }

\* the raw files that had a sibling when the current call began
HadSibling ==
    { n \in RawFiles : Sibling(n) \in DOMAIN files /\ "write" \notin DoneTo(pass, n) }

\* the current call only skips the raw files that had a sibling and, when it
\* returns, result.csv holds the rows the last completed call left, one for
\* each invocation of the raw files
Idempotence ==
    /\ \A n \in HadSibling : DoneTo(pass, n) \subseteq {"skip"}
    /\ proc_pc = "returned" =>
          /\ csv = prev_csv
          /\ BagCardinality(csv) = InvocationsIn(RawFiles)

\* C9: the Result Post-Processor is idempotent: when process is run again
\* over a directory it has already processed, every raw file that has a
\* "-processed" sibling is skipped (it is not loaded, no metrics are
\* downloaded for it, its sibling is not rewritten), and result.csv holds the
\* same rows as after the first pass, exactly one for each invocation.
\* TLC refutes this for a directory given by a relative path.
C9_Idempotent == ProcessedBefore => Idempotence

\* the directory was processed under its absolute path and process is run
\* again under a relative one: a raw file that has a sibling was loaded and
\* its metrics downloaded again, and the call died opening the sibling
C9_Witness ==
    /\ ProcessedBefore
    /\ ~directory.absolute
    /\ proc_pc = "crashed"
    /\ \E n \in HadSibling : {"load", "metrics"} \subseteq DoneTo(pass, n)

\* what does hold: a call that is given the absolute path of a directory
\* processed before is idempotent
C9_IdempotentForAbsoluteDirectory ==
    (ProcessedBefore /\ directory.absolute) => Idempotence

\* a second call under the absolute path returned: it skipped the cold and
\* the warm raw file and wrote the rows of the first call again
C9_SecondPassSkips ==
    /\ ProcessedBefore
    /\ directory.absolute
    /\ proc_pc = "returned"
    /\ Cardinality(HadSibling) >= 2
    /\ \A n \in HadSibling : DoneTo(pass, n) = {"skip"}
    /\ csv = prev_csv
    /\ csv # EmptyBag

(* ------------------------------------------------------------------ *)
(* Concurrency of the Run Driver                                       *)
(* ------------------------------------------------------------------ *)

\* C10, as the specification states it: no accumulator is updated while
\* any invocation of the current batch is still in flight. TLC refutes
\* this: res.get() waits for one invocation only, so the first outcomes are
\* folded while later invocations are still running.
C10_NoUpdateWhileInFlight ==
    [][InFlight => UNCHANGED accumulators]_vars

\* C10, amended: the accumulators are written by the control loop only (a
\* worker step changes none of them); an outcome is folded only after its
\* own invocation has completed or failed, in issue order, while later
\* invocations of the batch may still be in flight; incorrect_executions and
\* incorrect_count are updated, and the next batch is begun, only when no
\* invocation of the batch is in flight.
C10_FoldAfterOwnCompletion ==
    /\ [][results' # results /\ pc' = pc => UNCHANGED accumulators]_vars
    /\ [][accumulators' # accumulators /\ pc = "collect" /\ pc' = "collect" =>
            /\ results[res_idx] # Pending
            /\ res_idx' = res_idx + 1
            /\ results' = results
            /\ history'[Len(history)] = Append(history[Len(history)], results[res_idx])
            /\ UNCHANGED <<incorrect_executions, incorrect_count>>]_vars
    /\ [][<<incorrect_executions, incorrect_count>>'
              # <<incorrect_executions, incorrect_count>> => ~InFlight]_vars
    /\ [][pc = "collect" /\ pc' # "collect" => ~InFlight]_vars
    /\ [](\A k \in 1..Len(results) : k < res_idx => results[k] # Pending)

\* the first outcome of a batch has been counted while the second
\* invocation is still in flight
C10_Witness ==
    /\ pc = "collect"
    /\ invocations = 2
    /\ res_idx = 2
    /\ results[1] # Pending
    /\ results[2] = Pending
    /\ samples_gathered = 1

\* C11: batches are strictly sequential. An invocation is in flight only
\* while its own batch is collected; a batch is issued, and
\* enforce_cold_start is called, only when no invocation is in flight and
\* every invocation of the batch before has been folded; the cold-start
\* counter is written before the first batch only.
C11_BatchesSequential ==
    /\ [](InFlight => pc = "collect")
    /\ [](pc \in {"loop", "issue"} /\ history # <<>> =>
            Len(history[Len(history)]) = invocations)
    /\ [][Len(history') > Len(history) =>
            /\ ~InFlight
            /\ \A b \in 1..Len(history) : Len(history[b]) = invocations]_vars
    /\ [][enforce_calls' # enforce_calls =>
            ~InFlight /\ ~InFlight' /\ pc = "loop" /\ pc' = "issue"]_vars
    /\ [][cold_start_counter' # cold_start_counter =>
            ~InFlight /\ history = <<>> /\ enforce_calls = 0]_vars

\* the second batch of a COLD run is in flight: the first was folded whole
\* and enforce_cold_start was called once for each
C11_Witness ==
    /\ run_type = "COLD"
    /\ pc = "collect"
    /\ Len(history) = 2
    /\ Len(history[1]) = invocations
    /\ invocations >= 2
    /\ InFlight
    /\ enforce_calls = 2

\* no outcome folded so far was counted as a valid sample
NoValidYet == ValidOf(run_type, Flat(history)) = <<>>

\* the run is Accumulating (or about to be) and has left nothing behind
StillAccumulating ==
    /\ pc \in {"init", "loop", "issue", "collect"}
    /\ samples_gathered = 0
    /\ result.state # "ended"
    /\ stats_input = <<>>
    /\ \A n \in DOMAIN files : files[n] = EmptyFile

\* C12: with repetitions > 0, as long as the backend has returned no valid
\* outcome (every outcome mislabeled for the run type, or raised), the run
\* has not left Accumulating: result.end() and compute_statistics have not
\* been called and nothing is written to the output file; at the loop test
\* the loop cannot be left, another batch can be issued, and it is issued.
\* Against a backend in outage this is so in every state of the run.
C12_StallsWithoutValidOutcome ==
    /\ [](repetitions > 0)
    /\ [](outage => NoValidYet)
    /\ [](NoValidYet => StillAccumulating)
    /\ [](NoValidYet /\ pc = "loop" =>
            /\ ENABLED (EnforceColdStart \/ IssueBatch)
            /\ ~ENABLED EndResult)
    /\ (outage /\ pc = "loop") ~> (pc = "collect")

\* a run against a backend in outage: two batches brought an error and a
\* mislabeled outcome and no sample, and a third batch has been issued
C12_Witness ==
    /\ outage
    /\ pc = "collect"
    /\ Len(history) = 3
    /\ error_count >= 1
    /\ incorrect_count >= 1
    /\ samples_gathered = 0
    /\ StillAccumulating

\* the steps of the control loop of a run, as pairs of positions
RunOrder ==
    { <<"init", "loop">>, <<"loop", "issue">>, <<"loop", "collect">>,
      <<"issue", "collect">>, <<"collect", "loop">>, <<"loop", "stats">>,
      <<"stats", "write">>, <<"write", "done">> }

\* the output file of the run
OutFile == files[FileName(run_type, suffix)]

\* C13: a run goes Initializing -> Accumulating -> Finalizing -> Done in
\* that order. begin() is called on a fresh ExperimentResult before any
\* invocation is issued or added; end() is called once, on leaving the loop,
\* after the last invocation was added; compute_statistics is called after
\* end(); the document is written once, after that; and once the result is
\* sealed no invocation is added and no batch is issued. Every run gets
\* there.
C13_RunOrder ==
    /\ [][pc' # pc => <<pc, pc'>> \in RunOrder]_vars
    /\ [](result.state = "none" <=> pc = "init")
    /\ [](pc = "init" => result.invocations = <<>> /\ history = <<>>)
    /\ [][pc = "init" /\ pc' # "init" =>
            result' = [state |-> "begun", invocations |-> <<>>]]_vars
    /\ [](result.state = "begun" <=> pc \in {"loop", "issue", "collect"})
    /\ [](result.state = "ended" <=> pc \in {"stats", "write", "done"})
    /\ [][result.invocations' # result.invocations =>
            result.state = "begun" /\ result'.state = "begun"]_vars
    /\ [][result.state = "ended" =>
            /\ result' = result
            /\ history' = history
            /\ results' = results
            /\ samples_generated' = samples_generated]_vars
    /\ [][stats_input' # stats_input =>
            result.state = "ended" /\ pc = "stats" /\ stats_input' = client_times]_vars
    /\ [](pc \in {"write", "done"} => stats_input = client_times)
    /\ [](pc # "init" => (OutFile.kind = "json" <=> pc = "done"))
    /\ [][pc # "init" /\ files' # files =>
            pc = "write" /\ pc' = "done" /\ OutFile.kind = "empty"]_vars
    /\ [][pc = "done" => UNCHANGED vars]_vars
    /\ <>(pc = "done")

\* a run of three batches is Done: sealed, its statistics computed from the
\* series, its document written
C13_Witness ==
    /\ pc = "done"
    /\ Len(history) = 3
    /\ result.state = "ended"
    /\ Len(result.invocations) >= repetitions
    /\ stats_input = client_times
    /\ OutFile.kind = "json"
    /\ OutFile.invocations = result.invocations

\* what the sweep is to do for one memory size: the deployment update, the
\* cache update, then the runs of the entries under that suffix
CallsOfMemory(m) ==
    <<<<"update_function", ToString(m)>>, <<"cache_update", ToString(m)>>>>
        \o RunsOfEntries(experiments, ToString(m))

RECURSIVE CallsOfMemories(_)
CallsOfMemories(sizes) ==
    IF sizes = <<>> THEN <<>>
    ELSE CallsOfMemory(Head(sizes)) \o CallsOfMemories(Tail(sizes))

\* what the whole sweep is to do, in order; an entry that is none of the
\* four names ends it in the first pass over the entries
CallsOfSweep ==
    IF memory_sizes = <<>> THEN RunsOfEntries(experiments, "")
    ELSE IF UnknownEntry THEN CallsOfMemory(memory_sizes[1])
    ELSE CallsOfMemories(memory_sizes)

\* C14: for each configured memory size, in configuration order, the
\* function's memory is set through the deployment client, then the cache
\* client is updated, and only then the Run Driver runs, once for each cold
\* or warm entry in the order of `experiments`, under the suffix of that
\* size; while a run is going both updates for its memory size are done.
\* With no memory size configured the runs are made once, without suffix,
\* and neither update is performed.
C14_SweepOrder ==
    /\ [](IsPrefix(calls, CallsOfSweep))
    /\ [](sweep_pc \in {"finished", "raised"} => calls = CallsOfSweep)
    /\ [](pc # "idle" /\ memory_sizes # <<>> =>
            /\ mem_idx \in 1..Len(memory_sizes)
            /\ function_memory = memory_sizes[mem_idx]
            /\ deployed_memory = memory_sizes[mem_idx]
            /\ cached_memory = memory_sizes[mem_idx]
            /\ suffix = ToString(memory_sizes[mem_idx]))
    /\ [](memory_sizes = <<>> =>
            /\ deployed_memory = 0 /\ cached_memory = 0 /\ function_memory = 0
            /\ calls = RunCalls
            /\ pc # "idle" => suffix = "")
    /\ [][cached_memory' # cached_memory =>
            deployed_memory = function_memory /\ cached_memory' = deployed_memory
            /\ pc = "idle"]_vars
    /\ [][deployed_memory' # deployed_memory => pc = "idle" /\ pc' = "idle"]_vars

\* a sweep over two memory sizes with a cold and a warm entry has finished:
\* update, cache update, cold run and warm run for 128, then for 256
C14_Witness ==
    /\ sweep_pc = "finished"
    /\ experiments = <<"cold", "warm">>
    /\ memory_sizes = <<128, 256>>
    /\ calls = << <<"update_function", "128">>, <<"cache_update", "128">>,
                  <<"COLD", "128">>, <<"WARM", "128">>,
                  <<"update_function", "256">>, <<"cache_update", "256">>,
                  <<"COLD", "256">>, <<"WARM", "256">> >>

\* a sweep without memory sizes has finished: one cold and one warm run
C14_NoMemorySizes ==
    /\ sweep_pc = "finished"
    /\ memory_sizes = <<>>
    /\ calls = << <<"COLD", "">>, <<"WARM", "">> >>

\* the file a started run of the sweep writes
FileOfRun(call) == FileName(call[1], call[2])

\* the runs the sweep has started, as (run type, suffix) pairs
RunPairs == { RunCalls[k] : k \in 1..Len(RunCalls) }

\* C15: every run of a sweep leaves its own raw result file: runs of
\* distinct (run type, memory configuration) pairs write distinct files,
\* each named after its run's type, so that no run's document is overwritten
\* by a run of another pair and after the sweep there is one document per
\* pair - also when no memory size is configured and both cold and warm are
\* requested. TLC refutes this for exactly that case.
C15_OwnFilePerRun ==
    /\ \A a \in RunPairs : \A b \in RunPairs :
          a # b => FileOfRun(a) # FileOfRun(b)
    /\ \A a \in RunPairs : FileOfRun(a)[1] = RunTypeStr(a[1])
    /\ sweep_pc = "finished" =>
          /\ Cardinality(DOMAIN files) = Cardinality(RunPairs)
          /\ \A n \in DOMAIN files : files[n].kind = "json"

\* a sweep without memory sizes that ran cold and then warm has finished:
\* the only file is cold_results.json and it holds the warm run's
\* invocations, the cold run's document is gone
C15_Witness ==
    /\ sweep_pc = "finished"
    /\ memory_sizes = <<>>
    /\ experiments = <<"cold", "warm">>
    /\ RunCalls = << <<"COLD", "">>, <<"WARM", "">> >>
    /\ DOMAIN files = { <<"cold", "results">> }
    /\ files[<<"cold", "results">>].kind = "json"
    /\ files[<<"cold", "results">>].invocations # <<>>
    /\ \A k \in 1..Len(files[<<"cold", "results">>].invocations) :
          ~files[<<"cold", "results">>].invocations[k].cold_start

\* what does hold: with memory sizes configured every (run type, memory
\* size) pair of the sweep has its own file, named after the run type
C15_OwnFilePerRunWithSuffix ==
    memory_sizes # <<>> =>
       /\ \A a \in RunPairs : \A b \in RunPairs :
             a # b => FileOfRun(a) # FileOfRun(b)
       /\ \A a \in RunPairs : FileOfRun(a)[1] = RunTypeStr(a[1])
       /\ sweep_pc = "finished" =>
             /\ Cardinality(DOMAIN files) = Cardinality(RunPairs)
             /\ \A n \in DOMAIN files : files[n].kind = "json"

\* the rows of result.csv
Rows == BagToSet(csv)

\* the run type of the run that gathered an invocation: cold runs keep the
\* cold starts, warm runs the others
TypeOfSample(cold_start) == IF cold_start THEN "cold" ELSE "warm"

\* C16: the Post-Processor can process every raw result file the Run Driver
\* can produce, with or without a memory suffix: decoding the memory size
\* and the run type from the file name never fails, and the run type of
\* every row written is the type of the run that produced the file. TLC
\* refutes this for the file a run without suffix writes.
C16_DecodesEveryRawName ==
    /\ \A e \in events : e[2] # "IndexError"
    /\ \A row \in Rows : row[2] = TypeOfSample(row[3])
    /\ \A row \in Rows : row[1] \in MemoryValues

\* process() met cold_results.json, the file of a run without suffix, in a
\* directory given by its absolute path, and died of IndexError decoding it
C16_Witness ==
    /\ proc_pc = "crashed"
    /\ directory.absolute
    /\ <<"cold", "results">> \in DOMAIN files
    /\ <<pass, "IndexError", <<"cold", "results">>>> \in events
    /\ pass = 1

\* what does hold: the names with a memory suffix are decoded, and the rows
\* written carry the memory size and the type of the run behind the file
C16_DecodesSuffixedNames ==
    /\ \A e \in events : e[2] = "IndexError" => Len(Fields(e[3])) < 3
    /\ \A row \in Rows : row[2] = TypeOfSample(row[3])
    /\ \A row \in Rows : row[1] \in MemoryValues
    /\ \A n \in DOMAIN files : "rows" \in DoneTo(pass, n) =>
          /\ Len(Fields(n)) = 3
          /\ \E row \in Rows : row[2] = n[1] /\ ToString(row[1]) = n[3]

\* a run has passed Initializing
Started == pc \notin {"idle", "init"}

\* C17: at the start of every run, before the first batch and before any
\* enforce_cold_start, cold_start_counter is set to a freshly drawn integer
\* in [0, 100), and the value differs from the one the previous run started
\* with: two consecutive runs never begin with the same counter value.
\* TLC refutes the second half: the draws are independent.
C17_FreshCounterDiffers ==
    /\ Started =>
          /\ cold_start_counter \in RandRange
          /\ counter_starts # <<>>
          /\ counter_starts[Len(counter_starts)] = cold_start_counter
    /\ Len(counter_starts) = 2 => counter_starts[1] # counter_starts[2]

\* the second run of a sweep has started with the counter value the first
\* run started with
C17_Witness ==
    /\ Len(RunCalls) = 2
    /\ pc = "loop"
    /\ Len(counter_starts) = 2
    /\ counter_starts[1] = counter_starts[2]
    /\ cold_start_counter = counter_starts[1]

\* what does hold: every run sets the counter once, in Initializing, before
\* any batch and any enforce_cold_start, to an integer in [0, 100)
C17_DrawnAtStart ==
    /\ [](Started =>
            /\ cold_start_counter \in RandRange
            /\ counter_starts # <<>>
            /\ counter_starts[Len(counter_starts)] = cold_start_counter)
    /\ [][backend' # backend =>
            /\ pc = "init" /\ pc' = "loop"
            /\ history = <<>> /\ enforce_calls = 0 /\ samples_generated = 0
            /\ cold_start_counter' \in RandRange]_vars

\* how often compute_statistics made a call
TimesCalled(call) ==
    Cardinality({ k \in 1..Len(stats_calls) : stats_calls[k] = call })

\* C18: in compute_statistics, for each alpha of 0.95 and 0.99 the
\* parametric (Student's t) interval is always computed, once, and the
\* non-parametric (le Boudec) interval is computed, once and after it, if and
\* only if there are more than 20 samples: it is not computed for exactly
\* 20 samples and it is computed for 21.
C18_NonParametricAboveTwenty ==
    StatsCalled =>
        /\ \A alpha \in {95, 99} :
              /\ TimesCalled(<<"ci_tstudents", alpha>>) = 1
              /\ TimesCalled(<<"ci_le_boudec", alpha>>)
                    = (IF Len(stats_input) > 20 THEN 1 ELSE 0)
        /\ \A k \in 1..Len(stats_calls) :
              /\ stats_calls[k][1] \in {"basic_stats", "ci_tstudents", "ci_le_boudec"}
              /\ stats_calls[k][1] # "basic_stats" => stats_calls[k][2] \in {95, 99}
              /\ stats_calls[k][1] = "ci_le_boudec" =>
                    k > 1 /\ stats_calls[k - 1] = <<"ci_tstudents", stats_calls[k][2]>>
        /\ Len(stats_input) = 20 =>
              stats_calls = << <<"basic_stats", 0>>, <<"ci_tstudents", 95>>,
                               <<"ci_tstudents", 99>> >>
        /\ Len(stats_input) = 21 =>
              stats_calls = << <<"basic_stats", 0>>,
                               <<"ci_tstudents", 95>>, <<"ci_le_boudec", 95>>,
                               <<"ci_tstudents", 99>>, <<"ci_le_boudec", 99>> >>

\* compute_statistics returned for 21 samples: both intervals for both alphas
C18_Witness ==
    /\ StatsCalled
    /\ Len(stats_input) = 21
    /\ TimesCalled(<<"ci_le_boudec", 95>>) = 1
    /\ TimesCalled(<<"ci_le_boudec", 99>>) = 1
    /\ TimesCalled(<<"ci_tstudents", 95>>) = 1

\* compute_statistics returned for exactly 20 samples: no le Boudec interval
C18_TwentySamples ==
    /\ StatsCalled
    /\ Len(stats_input) = 20
    /\ Len(stats_calls) = 3
    /\ TimesCalled(<<"ci_le_boudec", 95>>) = 0

\* C19: in the statistics block written at Finalizing, samples_generated is
\* the number of valid samples gathered (not the number of invocations
\* issued), failures_count is the number of entries of failures and
\* incorrect_count the number of entries of incorrect; during the run the
\* counters agree with their lists at every loop test and never decrease.
C19_StatisticsBlock ==
    /\ [](pc = "done" =>
            /\ OutFile.samples_generated = samples_gathered
            /\ OutFile.samples_generated = Len(OutFile.invocations)
            /\ OutFile.samples_generated
                  = Len(ValidOf(run_type, Flat(history)))
            /\ OutFile.failures_count = Len(OutFile.failures)
            /\ OutFile.failures_count = Len(FailedOf(Flat(history)))
            /\ OutFile.incorrect_count = Len(OutFile.incorrect)
            /\ OutFile.incorrect = IncorrectOf(run_type, Flat(history))
            /\ OutFile.samples_generated + OutFile.failures_count
                  + OutFile.incorrect_count = samples_generated)
    /\ [](error_count = Len(error_executions))
    /\ [](incorrect_count = Len(incorrect_executions))
    /\ [][/\ samples_gathered' >= samples_gathered
          /\ samples_generated' >= samples_generated
          /\ error_count' >= error_count
          /\ incorrect_count' >= incorrect_count
          /\ IsPrefix(error_executions, error_executions')
          /\ IsPrefix(incorrect_executions, incorrect_executions')]_vars

\* a run is Done that issued more invocations than it gathered samples: the
\* block reports the samples, one failure and one incorrect outcome
C19_Witness ==
    /\ pc = "done"
    /\ OutFile.kind = "json"
    /\ OutFile.samples_generated = samples_gathered
    /\ OutFile.samples_generated < samples_generated
    /\ OutFile.failures_count = 1
    /\ OutFile.incorrect_count = 1

====
